---- MODULE Spec2Model ----
(***************************************************************************)
(* Model of simplex_helper.py: the pivot routine, the interactive simplex  *)
(* loop and the final report of main().                                    *)
(*                                                                         *)
(* A Number is a Python int or a fractions.Fraction.  It is modelled as a  *)
(* record [t, n, d]: t is the Python type ("int" or "frac"), n/d the exact *)
(* value, d > 0, gcd(n, d) = 1 (Fraction always keeps lowest terms) and    *)
(* d = 1 for an int.  A Fraction with d = 1 is a different object from the *)
(* int of the same value: isinstance(x, int) tells them apart.             *)
(*                                                                         *)
(* A tableau is a sequence of rows, a row a sequence of Numbers.  TLA+     *)
(* sequences start at 1; Python indices (0-based, negative ones counting   *)
(* from the end) are kept at the interface and converted by Pos.           *)
(***************************************************************************)
EXTENDS Integers, Sequences, FiniteSets, TLC

\* ------------------------------------------------------------------------
\* Bounds of the model
\* ------------------------------------------------------------------------
\* Largest magnitude of the numerator of an entry handed to a single call of
\* pivot.
MaxVal == 2
\* Largest magnitude of an entry of the integer tableau a solve starts from.
MaxStart == 1
\* Largest number of calls of pivot in one solve.
MaxPivots == 2

\* ------------------------------------------------------------------------
\* Exact arithmetic on Numbers (Python int and fractions.Fraction)
\* ------------------------------------------------------------------------
Abs(a) == IF a < 0 THEN -a ELSE a

Sign(a) == IF a < 0 THEN -1 ELSE IF a > 0 THEN 1 ELSE 0

RECURSIVE Gcd(_, _)
Gcd(a, b) == IF b = 0 THEN a ELSE Gcd(b, a % b)

\* Python's a // b on ints, b # 0: the floor of the quotient.
FloorDiv(a, b) ==
    LET q == Abs(a) \div Abs(b)
        exact == (Abs(a) % Abs(b)) = 0
    IN  IF Sign(a) * Sign(b) >= 0 THEN q
        ELSE IF exact THEN -q ELSE -q - 1

\* The int k.
PyInt(k) == [t |-> "int", n |-> k, d |-> 1]

\* Fraction(a, b) for ints a, b with b # 0: lowest terms, positive denominator.
Fraction(a, b) ==
    LET g == Gcd(Abs(a), Abs(b))
    IN  [t |-> "frac", n |-> (Sign(b) * a) \div g, d |-> Abs(b) \div g]

\* isinstance(x, int)
IsInt(x) == x.t = "int"

\* x == 0, x == 1: Python compares int and Fraction by value.
IsZero(x) == x.n = 0

IsOne(x) == x.n = 1 /\ x.d = 1

\* x >= 0
NonNeg(x) == x.n >= 0

\* x < y, x == y by exact value
Lt(x, y) == x.n * y.d < y.n * x.d

Eq(x, y) == x.n = y.n /\ x.d = y.d

\* x * y and x - y: int when both operands are ints, Fraction otherwise.
Mul(x, y) ==
    IF IsInt(x) /\ IsInt(y) THEN PyInt(x.n * y.n)
    ELSE Fraction(x.n * y.n, x.d * y.d)

Sub(x, y) ==
    IF IsInt(x) /\ IsInt(y) THEN PyInt(x.n - y.n)
    ELSE Fraction(x.n * y.d - y.n * x.d, x.d * y.d)

\* x / y with y a nonzero Fraction (int / Fraction and Fraction / Fraction are
\* both Fractions).
TrueDivFrac(x, y) == Fraction(x.n * y.d, x.d * y.n)

\* x // p for an int p # 0: an int for int and for Fraction x.
IntFloorDiv(x, p) == PyInt(FloorDiv(x.n, x.d * p.n))

\* Fraction(x, p) for an int p # 0 and an int or Fraction x.
FractionOf(x, p) == Fraction(x.n, x.d * p.n)

\* ------------------------------------------------------------------------
\* Tableaus and Python indexing
\* ------------------------------------------------------------------------
\* len(matrix) and len(matrix[0])
NumRows(T) == Len(T)

NumCols(T) == Len(T[1])

\* A Python index i is legal for a list of length len iff -len <= i < len.
InRange(i, len) == -len <= i /\ i < len

\* Position (1-based) of the element a legal Python index i names.
Pos(i, len) == IF i >= 0 THEN i + 1 ELSE len + i + 1

\* matrix[row][col]
At(T, row, col) == T[Pos(row, NumRows(T))][Pos(col, NumCols(T))]

\* ------------------------------------------------------------------------
\* pivot(matrix, row, col)
\* ------------------------------------------------------------------------
\* Variant of Divisible: the floor division taken without the remainder test.
DivisibleAlways(x, p) == TRUE

\* x % p == 0 for an int p # 0: x is an integral multiple of p.
Divisible(x, p) == x.d = 1 /\ (Abs(x.n) % Abs(p.n)) = 0

\* Lines 42-45: the pivot row divided by the pivot value p # 0.
NormalizedRow(R, p) ==
    IF IsInt(p)
    THEN [j \in 1..Len(R) |->
            IF Divisible(R[j], p) THEN IntFloorDiv(R[j], p) ELSE FractionOf(R[j], p)]
    ELSE [j \in 1..Len(R) |-> TrueDivFrac(R[j], p)]

\* Variant of ReducedRow: the multiple of the pivot row added, not subtracted.
ReducedRowAdded(R, P, c, pr) ==
    [j \in 1..Len(R) |-> Sub(R[j], Mul(P[j], Sub(PyInt(0), c)))]

\* Lines 51-54: row R reduced by the pivot row P, c = matrix[r][col] and
\* pr = matrix[row][col] as they are when row r is processed (pr # 0 if both
\* are ints).
ReducedRow(R, P, c, pr) ==
    IF IsInt(c) /\ IsInt(pr)
    THEN [j \in 1..Len(R) |->
            IF Divisible(c, pr)
            THEN Sub(R[j], Mul(P[j], IntFloorDiv(c, pr)))
            ELSE Sub(R[j], Mul(P[j], FractionOf(c, pr)))]
    ELSE [j \in 1..Len(R) |-> Sub(R[j], Mul(P[j], c))]

\* Lines 48-54: the loop over r = k-1, ..., len(matrix)-1 on the matrix M as
\* mutated so far.  The test r == row compares the loop index with the index
\* as given, so a negative row skips nothing.  c % pr with int pr = 0 raises
\* ZeroDivisionError and leaves the rows already replaced as they are.
RECURSIVE ReduceFrom(_, _, _, _)
ReduceFrom(M, k, row, col) ==
    IF k > NumRows(M) THEN [exc |-> "none", matrix |-> M]
    ELSE IF k - 1 = row THEN ReduceFrom(M, k + 1, row, col)
    ELSE LET c  == M[k][Pos(col, NumCols(M))]
             pr == At(M, row, col)
         IN  IF IsInt(c) /\ IsInt(pr) /\ IsZero(pr)
             THEN [exc |-> "ZeroDivisionError", matrix |-> M]
             ELSE ReduceFrom(
                    [M EXCEPT ![k] = ReducedRow(M[k], M[Pos(row, NumRows(M))], c, pr)],
                    k + 1, row, col)

\* Lines 57-60: a Fraction with denominator 1 becomes an int.
Normalize(x) == IF x.t = "frac" /\ x.d = 1 THEN PyInt(x.n) ELSE x

NormalizeAll(M) ==
    [i \in 1..NumRows(M) |-> [j \in 1..Len(M[i]) |-> Normalize(M[i][j])]]

\* Variant of pivot: a zero pivot returns the matrix as it is and raises
\* nothing.
pivotSilentZero(T, row, col) ==
    IF ~(InRange(row, NumRows(T)) /\ InRange(col, NumCols(T)))
    THEN [exc |-> "IndexError", matrix |-> T]
    ELSE LET p  == At(T, row, col)
             rp == Pos(row, NumRows(T))
         IN  IF IsZero(p)
             THEN [exc |-> "none", matrix |-> T]
             ELSE LET red == ReduceFrom([T EXCEPT ![rp] = NormalizedRow(T[rp], p)],
                                        1, row, col)
                  IN  IF red.exc = "none"
                      THEN [exc |-> "none", matrix |-> NormalizeAll(red.matrix)]
                      ELSE red

\* pivot(matrix, row, col): the exception raised ("none" when it returns) and
\* the matrix object as the call leaves it (it is mutated in place).
\* Line 39 raises IndexError for an index out of range; a zero pivot raises
\* ZeroDivisionError inside the list comprehension of line 43 or 45, before
\* matrix[row] is assigned.
pivot(T, row, col) ==
    IF ~(InRange(row, NumRows(T)) /\ InRange(col, NumCols(T)))
    THEN [exc |-> "IndexError", matrix |-> T]
    ELSE LET p  == At(T, row, col)
             rp == Pos(row, NumRows(T))
         IN  IF IsZero(p)
             THEN [exc |-> "ZeroDivisionError", matrix |-> T]
             ELSE LET red == ReduceFrom([T EXCEPT ![rp] = NormalizedRow(T[rp], p)],
                                        1, row, col)
                  IN  IF red.exc = "none"
                      THEN [exc |-> "none", matrix |-> NormalizeAll(red.matrix)]
                      ELSE red

\* ------------------------------------------------------------------------
\* The ratio keys of line 81
\* ------------------------------------------------------------------------
\* The denominator b > 0 is a power of two.
RECURSIVE IsPow2(_)
IsPow2(b) == IF b = 1 THEN TRUE ELSE IF b % 2 = 1 THEN FALSE ELSE IsPow2(b \div 2)

\* 2^k mod b
RECURSIVE Pow2Mod(_, _)
Pow2Mod(k, b) == IF k = 0 THEN 1 % b ELSE (2 * Pow2Mod(k - 1, b)) % b

\* floor(log2(a / b)) for a, b > 0
RECURSIVE Log2Floor(_, _)
Log2Floor(a, b) ==
    IF a >= 2 * b THEN 1 + Log2Floor(a, 2 * b)
    ELSE IF a < b THEN Log2Floor(2 * a, b) - 1
    ELSE 0

\* int / int is a float: the quotient a / b rounded to the nearest double
\* (53 significant bits).  RoundErr is the sign of float(a / b) - a / b for
\* ints a and b > 0: 0 when the quotient is a double, else the direction in
\* which the 53-bit significand was rounded.
RoundErr(a, b) ==
    LET g  == Gcd(Abs(a), b)
        aa == Abs(a) \div g
        bb == b \div g
    IN  IF a = 0 \/ IsPow2(bb) THEN 0
        ELSE LET k   == 52 - Log2Floor(aa, bb)
                 rem == ((aa % bb) * Pow2Mod(k, bb)) % bb
             IN  IF 2 * rem > bb THEN Sign(a) ELSE -Sign(a)

\* The key of row x: matrix[x][-1] / matrix[x][col], or float('inf') for a
\* zero entry.  n/d is the exact quotient and err the sign of the error the
\* float carries (a Fraction quotient carries none).
RatioKey(rhs, a) ==
    IF IsZero(a) THEN [inf |-> TRUE, n |-> 0, d |-> 1, err |-> 0]
    ELSE LET q == TrueDivFrac(rhs, a)
         IN  [inf |-> FALSE, n |-> q.n, d |-> q.d,
              err |-> IF IsInt(rhs) /\ IsInt(a) THEN RoundErr(q.n, q.d) ELSE 0]

\* k1 < k2 as Python compares floats and Fractions (exactly, by value).
\* Two different quotients of small ints differ by far more than a rounding
\* error, so the errors decide only between equal quotients.
KeyLt(k1, k2) ==
    IF k1.inf THEN FALSE
    ELSE IF k2.inf THEN TRUE
    ELSE IF k1.n * k2.d < k2.n * k1.d THEN TRUE
    ELSE IF k1.n * k2.d > k2.n * k1.d THEN FALSE
    ELSE k1.err < k2.err

\* ------------------------------------------------------------------------
\* The selection of simplex(), lines 76-83 (0-based results)
\* ------------------------------------------------------------------------
\* matrix[-1][:-1].index(min(matrix[-1][:-1])): the first index holding a
\* value no other entry of the objective row is smaller than.
SelectCol(T) ==
    LET obj == T[NumRows(T)]
        C   == 1..(NumCols(T) - 1)
        j   == CHOOSE a \in C :
                  /\ \A b \in C : ~Lt(obj[b], obj[a])
                  /\ \A b \in C : (b < a) => Lt(obj[a], obj[b])
    IN  j - 1

\* min(range(len(matrix) - 1), key=...): the first row whose key no other
\* row's key is smaller than.
SelectRow(T, col) ==
    LET R      == 1..(NumRows(T) - 1)
        key(r) == RatioKey(T[r][NumCols(T)], T[r][col + 1])
        i      == CHOOSE a \in R :
                     /\ \A b \in R : ~KeyLt(key(b), key(a))
                     /\ \A b \in R : (b < a) => KeyLt(key(a), key(b))
    IN  i - 1

\* Variant of Optimal: the test matrix[-1][col] > 0.
OptimalStrict(T) == T[NumRows(T)][SelectCol(T) + 1].n > 0

\* matrix[-1][col] >= 0 at line 77
Optimal(T) == NonNeg(T[NumRows(T)][SelectCol(T) + 1])

\* matrix[row][-1] == 0 at line 82
ZeroRhs(T, row) == IsZero(T[row + 1][NumCols(T)])

\* ------------------------------------------------------------------------
\* main(): the final report, lines 162-167
\* ------------------------------------------------------------------------
\* [x[i] for x in result].index(1): the first row whose entry in column i
\* equals 1, or 0 when there is none (index raises ValueError).
FirstOne(T, i) ==
    LET R == {r \in 1..NumRows(T) : IsOne(T[r][i + 1])}
    IN  IF R = {} THEN 0 ELSE CHOOSE r \in R : \A q \in R : r <= q

\* The value printed for x_i: result[row][-1], or 0 in the except branch.
Reported(T, i) ==
    IF FirstOne(T, i) = 0 THEN PyInt(0) ELSE T[FirstOne(T, i)][NumCols(T)]

\* The values printed for x_0 .. x_{n-2}.
ReportOf(T) == [i \in 1..(NumCols(T) - 1) |-> Reported(T, i - 1)]

\* ------------------------------------------------------------------------
\* Inputs
\* ------------------------------------------------------------------------
Ints == {PyInt(k) : k \in (-MaxVal)..MaxVal}

StartInts == {PyInt(k) : k \in (-MaxStart)..MaxStart}

\* Fractions with denominator 1 or 2, as Fraction('k/2') builds them.
Halves == {Fraction(k, 2) : k \in (-MaxVal)..MaxVal}

Numbers == Ints \cup Halves

\* The m x n tableaus with entries in S.
Tableaus(m, n, S) == [1..m -> [1..n -> S]]

\* Integer tableaus as main() parses them, the objective value 0 in the last
\* row, with one or two constraints and one or two variables.
IntTableaus ==
    {T \in Tableaus(2, 2, StartInts) \cup Tableaus(3, 2, StartInts)
            \cup Tableaus(2, 3, StartInts) :
        IsZero(T[NumRows(T)][NumCols(T)])}

\* Tableaus with fractional coefficients handed to simplex(): two constraints
\* on one variable, some rows in halves, the objective row -1 0.
MixedEntries == {PyInt(1), PyInt(3), Fraction(1, 2), Fraction(3, 2)}

MixedTableaus ==
    {T \in Tableaus(3, 2, MixedEntries \cup {PyInt(-1), PyInt(0)}) :
        /\ T[3] = <<PyInt(-1), PyInt(0)>>
        /\ \A r \in 1..2 : \A j \in 1..2 : T[r][j] \in MixedEntries}

\* The tableaus a solve starts from.
StartTableaus == IntTableaus \cup MixedTableaus

\* The arguments of a single call of pivot: 2 x 2 tableaus of ints and
\* Fractions and any legal pair of Python indices.
PivotTableaus == Tableaus(2, 2, Numbers)

LegalIndex(len) == (-len)..(len - 1)

\* What the operator may type at a prompt: any index from -len to len (len
\* itself is out of range), or text that int() rejects (ok = FALSE).
Typed(len) ==
    {[ok |-> TRUE, v |-> i] : i \in (-len)..len} \cup {[ok |-> FALSE, v |-> 0]}

\* ------------------------------------------------------------------------
\* State
\* ------------------------------------------------------------------------
VARIABLES
    matrix,     \* the tableau object (mutated in place by pivot)
    state,      \* where the program is
    row, col,   \* the local variables row and col of simplex()
    exc,        \* the exception the last call of pivot raised, or "none"
    report,     \* the values main() printed for x_0 .. x_{n-2}
    matrix0,    \* history: the tableau simplex() was called with
    pre,        \* history: the tableau before the last call of pivot
    sugRow,     \* history: the row and column computed by the last selection
    sugCol,
    accepted,   \* history: every pivot so far was made on the suggestion
    pivots      \* history: number of calls of pivot so far

vars == <<matrix, state, row, col, exc, report, matrix0, pre, sugRow, sugCol,
          accepted, pivots>>

\* ------------------------------------------------------------------------
\* simplex(matrix) and main()
\* ------------------------------------------------------------------------
Init ==
    /\ matrix \in StartTableaus
    /\ matrix0 = matrix
    /\ pre = matrix
    /\ state = "SELECTING"
    /\ row = 0 /\ col = 0
    /\ sugRow = 0 /\ sugCol = 0
    /\ exc = "none"
    /\ report = <<>>
    /\ accepted = TRUE
    /\ pivots = 0

\* Lines 76-83: one pass of the selection.  Returns the matrix (OPTIMAL),
\* raises ValueError("Linear program is unbounded") (UNBOUNDED) or goes on
\* to the prompts.
Select ==
    /\ state = "SELECTING"
    /\ LET c == SelectCol(matrix)
           r == SelectRow(matrix, c)
       IN  /\ col' = c
           /\ sugCol' = c
           /\ IF Optimal(matrix)
              THEN /\ state' = "OPTIMAL"
                   /\ UNCHANGED <<row, sugRow>>
              ELSE /\ row' = r
                   /\ sugRow' = r
                   /\ state' = IF ZeroRhs(matrix, r) THEN "UNBOUNDED"
                               ELSE "AWAITING_PIVOT_CHOICE"
    /\ UNCHANGED <<matrix, exc, report, matrix0, pre, accepted, pivots>>

\* Lines 86-90: the two prompts.  A rejected column leaves both variables
\* at the suggestion, a rejected row leaves the row at the suggestion.
Choose(cin, rin) ==
    /\ state = "AWAITING_PIVOT_CHOICE"
    /\ pivots < MaxPivots
    /\ col' = IF cin.ok THEN cin.v ELSE col
    /\ row' = IF cin.ok /\ rin.ok THEN rin.v ELSE row
    /\ accepted' = (accepted /\ col' = col /\ row' = row)
    /\ state' = "PIVOTING"
    /\ UNCHANGED <<matrix, exc, report, matrix0, pre, sugRow, sugCol, pivots>>

\* Lines 93-98: the call of pivot.  ZeroDivisionError is caught and the loop
\* goes on; IndexError is not caught and ends the program.
DoPivot ==
    /\ state = "PIVOTING"
    /\ LET res == pivot(matrix, row, col)
       IN  /\ matrix' = res.matrix
           /\ exc' = res.exc
           /\ state' = IF res.exc = "IndexError" THEN "CRASHED" ELSE "SELECTING"
    /\ pre' = matrix
    /\ pivots' = pivots + 1
    /\ UNCHANGED <<row, col, report, matrix0, sugRow, sugCol, accepted>>

\* Lines 158-167: the report of main() on the matrix simplex() returned.
Report ==
    /\ state = "OPTIMAL"
    /\ report' = ReportOf(matrix)
    /\ state' = "REPORTED"
    /\ UNCHANGED <<matrix, row, col, exc, matrix0, pre, sugRow, sugCol, accepted,
                   pivots>>

\* A single call pivot(matrix, row, col) on arbitrary arguments.
InitPivot ==
    /\ matrix \in PivotTableaus
    /\ matrix0 = matrix
    /\ pre = matrix
    /\ state = "CALL"
    /\ row \in LegalIndex(NumRows(matrix))
    /\ col \in LegalIndex(NumCols(matrix))
    /\ sugRow = 0 /\ sugCol = 0
    /\ exc = "none"
    /\ report = <<>>
    /\ accepted = TRUE
    /\ pivots = 0

PivotCall ==
    /\ state = "CALL"
    /\ LET res == pivot(matrix, row, col)
       IN  /\ matrix' = res.matrix
           /\ exc' = res.exc
           /\ state' = IF res.exc = "none" THEN "RETURNED" ELSE "RAISED"
    /\ pre' = matrix
    /\ pivots' = pivots + 1
    /\ UNCHANGED <<row, col, report, matrix0, sugRow, sugCol, accepted>>

NextPivot == PivotCall

SpecPivot == InitPivot /\ [][NextPivot]_vars

Next ==
    \/ Select
    \/ \E cin \in Typed(NumCols(matrix)), rin \in Typed(NumRows(matrix)) :
          Choose(cin, rin)
    \/ DoPivot
    \/ Report

Spec == Init /\ [][Next]_vars

\* ------------------------------------------------------------------------
\* Properties
\* ------------------------------------------------------------------------
\* Position of the column the Python index col names in the current matrix.
ColPos(c) == Pos(c, NumCols(matrix))

\* Rows 0..m-2 (as positions) are the candidate rows, the last row is the
\* objective row, the last column the right-hand side.
Candidates(T) == 1..(NumRows(T) - 1)

Rhs(T, r) == T[r][NumCols(T)]

\* Every objective-row entry except the right-hand side is >= 0.
AllNonNeg(T) == \A j \in 1..(NumCols(T) - 1) : T[NumRows(T)][j].n >= 0

\* Column cp of T holds the value 1 in row rp and 0 in every other row.
ColumnIsUnit(T, rp, cp) ==
    \A r \in 1..NumRows(T) :
        IF r = rp THEN T[r][cp].n = 1 /\ T[r][cp].d = 1 ELSE T[r][cp].n = 0

\* C1: after a pivot on (row, col), row >= 0, with a nonzero entry there, the
\* call has returned and column col holds 1 at row and 0 in every other row,
\* the objective row included.
C1_UnitColumn ==
    (state = "SELECTING" /\ pivots > 0 /\ row >= 0 /\ ~IsZero(At(pre, row, col)))
        => /\ exc = "none"
           /\ ColumnIsUnit(matrix, row + 1, ColPos(col))

\* A pivot on a three-row tableau whose pivot entry was not 1 and whose
\* column had another nonzero entry has returned.
C1_Witness ==
    /\ state = "SELECTING" /\ pivots > 0 /\ row >= 0 /\ exc = "none"
    /\ NumRows(matrix) = 3
    /\ ~IsZero(At(pre, row, col)) /\ ~IsOne(At(pre, row, col))
    /\ \E r \in 1..NumRows(pre) : r # row + 1 /\ ~IsZero(pre[r][ColPos(col)])
    /\ ColumnIsUnit(matrix, row + 1, ColPos(col))

\* C2: a pivot attempt on an entry equal to 0 reports ZeroDivisionError,
\* leaves every entry of the tableau as it was and puts the controller back
\* in SELECTING.
C2_ZeroPivotRecovers ==
    [][(/\ state = "PIVOTING"
        /\ InRange(row, NumRows(matrix)) /\ InRange(col, NumCols(matrix))
        /\ At(matrix, row, col).n = 0)
        => (/\ exc' = "ZeroDivisionError"
            /\ matrix' = matrix
            /\ state' = "SELECTING")]_vars

\* A pivot attempt on a zero entry has been made and the controller is back
\* in SELECTING on the same tableau.
C2_Witness ==
    /\ state = "SELECTING" /\ pivots > 0
    /\ exc = "ZeroDivisionError"
    /\ At(pre, row, col).n = 0
    /\ matrix = pre

\* C3: a SELECTING step ends in OPTIMAL if and only if every objective-row
\* entry except the right-hand side is >= 0, and the step to OPTIMAL leaves
\* the tableau as it was inspected.
C3_OptimalIff ==
    [][(state = "SELECTING")
        => (/\ (state' = "OPTIMAL") <=> AllNonNeg(matrix)
            /\ (state' = "OPTIMAL") => (matrix' = matrix))]_vars

\* The controller has halted in OPTIMAL after at least one pivot, on a
\* tableau whose objective row has an entry equal to 0.
C3_Witness ==
    /\ state = "OPTIMAL" /\ pivots > 0
    /\ AllNonNeg(matrix)
    /\ \E j \in 1..(NumCols(matrix) - 1) : matrix[NumRows(matrix)][j].n = 0

\* C4: the controller asks for a pivot only when the selected column has a
\* positive entry in some candidate row: a selected column with only
\* entries <= 0 there is reported as Unbounded, whatever the right-hand
\* sides are.
C4_NonPositiveColumnIsUnbounded ==
    (state = "AWAITING_PIVOT_CHOICE")
        => \E r \in Candidates(matrix) : matrix[r][sugCol + 1].n > 0

\* The start tableau has every constraint right-hand side >= 0.
FeasibleStart == \A r \in Candidates(matrix0) : Rhs(matrix0, r).n >= 0

\* The start tableau is not optimal and its entering column has no positive
\* entry in a candidate row: the linear program is unbounded.
UnboundedStart ==
    /\ FeasibleStart
    /\ ~AllNonNeg(matrix0)
    /\ \A r \in Candidates(matrix0) : matrix0[r][SelectCol(matrix0) + 1].n <= 0

\* C5: a run from a feasible tableau of an unbounded program in which every
\* suggestion is accepted ends, when it ends, in UNBOUNDED.
C5_UnboundedRunEndsUnbounded ==
    (UnboundedStart /\ accepted)
        => state \notin {"OPTIMAL", "REPORTED", "CRASHED"}

\* new = old / p and new = x - c * y / p as equations between exact
\* rationals, by cross-multiplication of numerators and denominators.
IsQuotient(new, old, p) == new.n * (old.d * p.n) = new.d * (old.n * p.d)

IsReduced(new, x, c, y, p) ==
    new.n * (x.d * c.d * y.d * p.n)
        = new.d * (x.n * c.d * y.d * p.n - c.n * y.n * p.d * x.d)

\* C6: a call of pivot on (row, col), row >= 0, with p = T[row][col] # 0
\* returns the exact row reduction of T: the pivot row divided by p and every
\* other row r less T[r][col] / p times the pivot row, each value a rational
\* in lowest terms.
C6_ExactReduction ==
    (state \in {"RETURNED", "RAISED"} /\ row >= 0 /\ ~IsZero(At(pre, row, col)))
        => /\ state = "RETURNED"
           /\ \A r \in 1..NumRows(pre) : \A j \in 1..NumCols(pre) :
                /\ matrix[r][j].d > 0
                /\ Gcd(Abs(matrix[r][j].n), matrix[r][j].d) = 1
                /\ IF r = row + 1
                   THEN IsQuotient(matrix[r][j], pre[r][j], At(pre, row, col))
                   ELSE IsReduced(matrix[r][j], pre[r][j], pre[r][ColPos(col)],
                                  pre[row + 1][j], At(pre, row, col))

\* A call with a negative int pivot that does not divide an int entry of the
\* pivot row and with a nonzero entry below or above the pivot has returned.
C6_Witness ==
    /\ state = "RETURNED" /\ row >= 0
    /\ IsInt(At(pre, row, col)) /\ At(pre, row, col).n < -1
    /\ \E j \in 1..NumCols(pre) :
          IsInt(pre[row + 1][j]) /\ (Abs(pre[row + 1][j].n) % 2) = 1
    /\ \E r \in 1..NumRows(pre) : r # row + 1 /\ ~IsZero(pre[r][ColPos(col)])

\* Column i (a position) of T has exactly one entry equal to 1 and every
\* other entry 0.
UnitColumn(T, i) == \E r \in 1..NumRows(T) : ColumnIsUnit(T, r, i)

UnitRow(T, i) == CHOOSE r \in 1..NumRows(T) : ColumnIsUnit(T, r, i)

\* C7: the value reported for x_i is the right-hand side of the row holding
\* the 1 when column i is a unit column and 0 in every other case.
C7_ReportUnitColumnsOnly ==
    (state = "REPORTED")
        => \A i \in 1..(NumCols(matrix) - 1) :
              IF UnitColumn(matrix, i)
              THEN Eq(report[i], Rhs(matrix, UnitRow(matrix, i)))
              ELSE report[i].n = 0

\* C8: the pivot engine is applied only with a row index in 0..m-2 and a
\* column index in 0..n-2.
C8_PivotChoiceValidated ==
    (state = "PIVOTING")
        => /\ 0 <= row /\ row <= NumRows(matrix) - 2
           /\ 0 <= col /\ col <= NumCols(matrix) - 2

\* The exact ratio of row a is smaller than that of row b (both entries in
\* column cp nonzero).
RatioLess(T, cp, a, b) ==
    LET qa == TrueDivFrac(Rhs(T, a), T[a][cp])
        qb == TrueDivFrac(Rhs(T, b), T[b][cp])
    IN  qa.n * qb.d < qb.n * qa.d

\* Row a (a position) is the lowest row that minimises the exact ratio over
\* the candidate rows with a nonzero entry in column cp, or the lowest
\* candidate row when every entry is 0.
IsMinRatioRow(T, cp, a) ==
    LET NZ == {r \in Candidates(T) : T[r][cp].n # 0}
    IN  IF NZ = {} THEN a = 1
        ELSE /\ a \in NZ
             /\ \A b \in NZ : ~RatioLess(T, cp, b, a)
             /\ \A b \in NZ : (b < a) => RatioLess(T, cp, a, b)

\* Column a (a position) is the lowest column holding the minimum of the
\* objective row, the right-hand side excluded.
IsMinCostCol(T, a) ==
    LET obj == T[NumRows(T)]
    IN  /\ \A b \in 1..(NumCols(T) - 1) : ~Lt(obj[b], obj[a])
        /\ \A b \in 1..(a - 1) : Lt(obj[a], obj[b])

\* C9: on a non-optimal tableau the suggested column is the lowest one
\* holding the minimum objective value and the suggested row the lowest one
\* minimising the exact ratio over the rows with a nonzero entry.
C9_SuggestionIsFirstMinimum ==
    (state \in {"AWAITING_PIVOT_CHOICE", "UNBOUNDED"})
        => /\ IsMinCostCol(matrix, sugCol + 1)
           /\ IsMinRatioRow(matrix, sugCol + 1, sugRow + 1)

\* C10: from a start tableau with every constraint right-hand side >= 0,
\* pivots made on the suggestion keep every constraint right-hand side >= 0.
C10_FeasibilityPreserved ==
    (FeasibleStart /\ accepted)
        => \A r \in Candidates(matrix) : Rhs(matrix, r).n >= 0

====
